---- MODULE Spec2Model ----
(***************************************************************************)
(* Authentication state engine of simple-hospital: TwoFAService            *)
(* (services/auth/two_fa_service.go), TwoFASessionManager and              *)
(* ImprovedAuthMiddleware (middleware, improved auth), SessionManager and  *)
(* SessionAuthHandler (handlers/session_auth_handler.go).                  *)
(*                                                                         *)
(* Time is counted in TOTP periods of 30 seconds.  Values drawn from       *)
(* crypto/rand are modelled as fresh: the n-th draw yields the value n.    *)
(***************************************************************************)
EXTENDS Integers, Sequences, FiniteSets, TLC

VARIABLES db, rng, now, ticks, thr, sessions, objs, lsessions, lobjs

vars == <<db, rng, now, ticks, thr, sessions, objs, lsessions, lobjs>>

(* ------------------------------ bounds --------------------------------- *)
NumThreads == 2
MaxBatches == 2
MaxSessions == 2
MaxTicks == 2
MaxTried == 2
MaxSecrets == 2
MaxRows == 4

(* ------------------------- program constants --------------------------- *)
NumBackupCodes == 10
LoopSkew == 2
ValidateSkew == 1
PendingTTL == 30
AuthTTL == 2880
LoginTTL == 2880
LoginTempTTL == 10

Users == {1, 2, 3}
Threads == 1..NumThreads
EmptySecret == 0
NoUser == 0
NoToken == 0
UnknownToken == 0 - 1
BasicAuthToken == 0 - 2
SetupRequiredToken == 0 - 3

(* --------------------------- small helpers ----------------------------- *)
Range(s) == {s[i] : i \in DOMAIN s}

(* a removal that removes nothing *)
RemoveAt_KeepAll(s, i) == s

(* append(backupCodes[:i], backupCodes[i+1:]...) *)
RemoveAt(s, i) == SubSeq(s, 1, i - 1) \o SubSeq(s, i + 1, Len(s))

(* index of the first element of s equal to c, 0 when there is none:
   the scan  for i, backupCode := range backupCodes { if code == backupCode } *)
FirstIndex(s, c) ==
    IF \E i \in DOMAIN s : s[i] = c
    THEN CHOOSE i \in DOMAIN s : s[i] = c /\ \A j \in 1..(i - 1) : s[j] # c
    ELSE 0

(* ------------------------------ codes ---------------------------------- *)
(* A submitted code is a string; three shapes are told apart:
   the 6-digit TOTP code of a secret for a time step, a 12-hex-digit backup
   code (g = the draw that produced the batch, i = position) and junk. *)
GenerateCode(secret, step) == <<"totp", secret, step>>
BackupCode(g, i) == <<"backup", g, i>>
JunkCode == <<"junk", 0, 0>>
NoCode == <<"", 0, 0>>

IsBackup(c) == c[1] = "backup"

(* totp.Validate(code, secret): the library default accepts the current
   step and one step either side. *)
Validate(code, secret, t) ==
    \E i \in (0 - ValidateSkew)..ValidateSkew : GenerateCode(secret, t + i) = code

(* a loop that finds nothing *)
SkewLoop_None(code, secret, t) == FALSE

(* the fallback loop  for i := -2; i <= 2; i++  *)
SkewLoop(code, secret, t) ==
    \E i \in (0 - LoopSkew)..LoopSkew : GenerateCode(secret, t + i) = code

(* a validation that accepts every code *)
ValidTOTP_Any(code, secret, t) == TRUE

ValidTOTP(code, secret, t) == Validate(code, secret, t) \/ SkewLoop(code, secret, t)

(* ----------------------- stored backup-code text ----------------------- *)
(* the column two_fa_backup_codes holds either '' or a JSON array *)
EmptyText == [text |-> "empty", items |-> <<>>]
Marshal(list) == [text |-> "array", items |-> list]
UnmarshalOk(j) == j.text = "array"
Unmarshal(j) == j.items

StoredCodes(row) == Range(row.backup.items)

generateBackupCodes(g) == [i \in 1..NumBackupCodes |-> BackupCode(g, i)]

(* ------------------------------ threads -------------------------------- *)
Idle == [op |-> "none", pc |-> "idle", user |-> NoUser, code |-> NoCode,
         tok |-> NoToken, ptr |-> NoToken, list |-> <<>>,
         valid |-> FALSE, err |-> FALSE, out |-> "none", ret |-> <<>>,
         subject |-> NoUser]

Free(t) == thr[t].pc \in {"idle", "done"}

Start(op, pc, u, c, k) == [Idle EXCEPT !.op = op, !.pc = pc, !.user = u,
                                        !.code = c, !.tok = k]

Done(r, out) == [r EXCEPT !.pc = "done", !.out = out, !.ptr = NoToken, !.list = <<>>]

(* the response of a middleware handler: its locals are gone, what is left
   is the outcome, the subject put in the request context and a session id
   sent back *)
Reply(r, out) ==
    [Idle EXCEPT !.op = r.op, !.pc = "done", !.out = out,
                 !.subject = r.subject, !.ret = r.ret]

(* the session objects still referenced: by a map key or by a pointer held
   in a handler's local variable *)
Pointers(th) == {th[t].ptr : t \in Threads}

Collect(o, keys, th) == [k \in (DOMAIN o) \cap (keys \cup Pointers(th)) |-> o[k]]

(* a caller that goes on whatever VerifyTwoFA returned *)
AfterVerify_IgnoreResult(r, valid, err) ==
    LET r2 == [r EXCEPT !.valid = valid, !.err = err] IN
    CASE r.op = "VerifyTwoFACode" -> Done(r2, "valid")
      [] r.op = "handle2FAVerification" -> [r2 EXCEPT !.pc = "hv_mark"]
      [] r.op = "Verify2FAEndpoint" -> [r2 EXCEPT !.pc = "ve_mark"]
      [] r.op = "handleBasicAuth" -> Reply([r2 EXCEPT !.subject = r.user], "forwarded")
      [] r.op = "Verify2FA" -> [r2 EXCEPT !.pc = "lv_update"]
      [] OTHER -> Done(r2, "none")

(* what the caller of VerifyTwoFA does with (valid, err) *)
AfterVerify(r, valid, err) ==
    LET r2 == [r EXCEPT !.valid = valid, !.err = err] IN
    CASE r.op = "VerifyTwoFACode" ->
            Done(r2, IF err THEN "error" ELSE IF valid THEN "valid" ELSE "invalid")
      [] r.op = "handle2FAVerification" ->
            IF err \/ ~valid THEN Reply(r2, "Invalid 2FA code")
            ELSE [r2 EXCEPT !.pc = "hv_mark"]
      [] r.op = "Verify2FAEndpoint" ->
            IF err \/ ~valid THEN Reply(r2, "Invalid 2FA code")
            ELSE [r2 EXCEPT !.pc = "ve_mark"]
      [] r.op = "handleBasicAuth" ->
            IF err \/ ~valid THEN Reply(r2, "Invalid 2FA code")
            ELSE Reply([r2 EXCEPT !.subject = r.user], "forwarded")
      [] r.op = "Verify2FA" ->
            IF err \/ ~valid THEN Reply(r2, "Invalid 2FA code")
            ELSE [r2 EXCEPT !.pc = "lv_update"]
      [] OTHER -> Done(r2, "none")

(* --------------------------- TwoFAService ------------------------------ *)
(* codes a client may submit for user u: the current TOTP code of the
   stored secret, one that is too old, junk, and the first MaxTried codes
   of every batch issued so far *)
OtpCodes(u) ==
    {GenerateCode(db[u].secret, now), GenerateCode(db[u].secret, now - LoopSkew - 1),
     JunkCode}

TriedCodes(u, n) == OtpCodes(u) \cup {BackupCode(g, i) : g \in 1..rng.batch, i \in 1..n}

(* one-by-one use: the first or the last code still stored, or any code
   issued earlier that is no longer stored *)
IssuedCodes == {BackupCode(g, i) : g \in 1..rng.batch, i \in 1..NumBackupCodes}

EndCodes(u) ==
    LET l == db[u].backup.items IN
    IF l = <<>> THEN {} ELSE {l[1], l[Len(l)]}

SeqCodes(u) == OtpCodes(u) \cup EndCodes(u) \cup (IssuedCodes \ StoredCodes(db[u]))

(* first statement of VerifyTwoFA: the SELECT, then everything up to the
   UPDATE, which works on the values read *)
VerifySelect(t) ==
    /\ thr[t].pc = "vt_select"
    /\ LET r == thr[t]
           row == db[r.user]
       IN  thr' = [thr EXCEPT ![t] =
             IF ~row.enabled THEN AfterVerify(r, FALSE, TRUE)
             ELSE IF ValidTOTP(r.code, row.secret, now) THEN AfterVerify(r, TRUE, FALSE)
             ELSE IF ~UnmarshalOk(row.backup) THEN AfterVerify(r, FALSE, TRUE)
             ELSE LET backupCodes == Unmarshal(row.backup)
                      i == FirstIndex(backupCodes, r.code)
                  IN  IF i = 0 THEN AfterVerify(r, FALSE, FALSE)
                      ELSE [r EXCEPT !.pc = "vt_update",
                                     !.list = RemoveAt(backupCodes, i)]]
    /\ objs' = Collect(objs, sessions, thr')
    /\ lobjs' = Collect(lobjs, lsessions, thr')
    /\ UNCHANGED <<db, rng, now, ticks, sessions, lsessions>>

(* the UPDATE of the remaining codes (its error is ignored) and return true *)
VerifyUpdate(t) ==
    /\ thr[t].pc = "vt_update"
    /\ LET r == thr[t] IN
       /\ db' = [db EXCEPT ![r.user].backup = Marshal(r.list)]
       /\ thr' = [thr EXCEPT ![t] = AfterVerify([r EXCEPT !.list = <<>>], TRUE, FALSE)]
    /\ objs' = Collect(objs, sessions, thr')
    /\ lobjs' = Collect(lobjs, lsessions, thr')
    /\ UNCHANGED <<rng, now, ticks, sessions, lsessions>>

(* the same statement when Exec fails: the error is not looked at, the row
   stays as it is and VerifyTwoFA returns true *)
VerifyUpdateFails(t) ==
    /\ thr[t].pc = "vt_update"
    /\ LET r == thr[t] IN
       thr' = [thr EXCEPT ![t] = AfterVerify([r EXCEPT !.list = <<>>], TRUE, FALSE)]
    /\ objs' = Collect(objs, sessions, thr')
    /\ lobjs' = Collect(lobjs, lsessions, thr')
    /\ UNCHANGED <<db, rng, now, ticks, sessions, lsessions>>

(* TwoFAHandler.VerifyTwoFACode: a direct call of VerifyTwoFA *)
VerifyTwoFACode(t, u, c) ==
    /\ Free(t)
    /\ thr' = [thr EXCEPT ![t] = Start("VerifyTwoFACode", "vt_select", u, c, NoToken)]
    /\ UNCHANGED <<db, rng, now, ticks, sessions, objs, lsessions, lobjs>>

(* the row written by EnableTwoFA's UPDATE *)
EnabledRow_NoCodes(secret, g) ==
    [secret |-> secret, enabled |-> TRUE, backup |-> EmptyText]

EnabledRow(secret, g) ==
    [secret |-> secret, enabled |-> TRUE, backup |-> Marshal(generateBackupCodes(g))]

(* EnableTwoFA: validation, generateBackupCodes and one UPDATE *)
EnableTwoFA(t, u, secret, code) ==
    /\ Free(t)
    /\ IF ValidTOTP(code, secret, now)
       THEN /\ rng.batch < MaxBatches
            /\ rng' = [rng EXCEPT !.batch = @ + 1]
            /\ db' = [db EXCEPT ![u] = EnabledRow(secret, rng.batch + 1)]
            /\ thr' = [thr EXCEPT ![t] =
                        [Done(Start("EnableTwoFA", "done", u, code, NoToken), "enabled")
                           EXCEPT !.ret = generateBackupCodes(rng.batch + 1)]]
       ELSE /\ thr' = [thr EXCEPT ![t] =
                        Done(Start("EnableTwoFA", "done", u, code, NoToken), "invalid 2FA code")]
            /\ UNCHANGED <<db, rng>>
    /\ UNCHANGED <<now, ticks, sessions, objs, lsessions, lobjs>>

(* a disable that leaves the backup codes in the row *)
DisableTwoFA_KeepCodes(u) ==
    /\ db' = [db EXCEPT ![u].secret = EmptySecret, ![u].enabled = FALSE]
    /\ UNCHANGED <<rng, now, ticks, thr, sessions, objs, lsessions, lobjs>>

(* DisableTwoFA: one UPDATE *)
DisableTwoFA(u) ==
    /\ db' = [db EXCEPT ![u] = [secret |-> EmptySecret, enabled |-> FALSE,
                               backup |-> EmptyText]]
    /\ UNCHANGED <<rng, now, ticks, thr, sessions, objs, lsessions, lobjs>>

(* the n-th secret drawn by totp.Generate: different from the empty secret,
   from every secret drawn before and from the secrets a client makes up *)
GeneratedSecret(n) == 100 + n

(* a setup that never looks at the stored secret *)
GenerateTwoFASetup_Always(t, username) ==
    /\ Free(t)
    /\ rng.secret < MaxSecrets
    /\ thr' = [thr EXCEPT ![t] =
                 Start("GenerateTwoFASetup", "gs_update", username, NoCode, NoToken)]
    /\ UNCHANGED <<db, rng, now, ticks, sessions, objs, lsessions, lobjs>>

(* GenerateTwoFASetup: the SELECT of two_fa_secret and the test
   err != nil || existingSecret == ""  (the query finds no row for a
   username that is not in Users); an existing secret is returned as it is *)
GenerateTwoFASetup(t, username) ==
    /\ Free(t)
    /\ LET r == Start("GenerateTwoFASetup", "gs_update", username, NoCode, NoToken) IN
       IF username \notin Users \/ db[username].secret = EmptySecret
       THEN /\ rng.secret < MaxSecrets
            /\ thr' = [thr EXCEPT ![t] = r]
       ELSE thr' = [thr EXCEPT ![t] =
                      Done([r EXCEPT !.ret = <<db[username].secret>>], "setup")]
    /\ UNCHANGED <<db, rng, now, ticks, sessions, objs, lsessions, lobjs>>

(* GenerateTwoFASetup: totp.Generate, the UPDATE of two_fa_secret (which
   changes no row for a username that is not in Users) and the return *)
SetupStore(t) ==
    /\ thr[t].pc = "gs_update"
    /\ LET r == thr[t]
           secretKey == GeneratedSecret(rng.secret + 1)
       IN  /\ rng' = [rng EXCEPT !.secret = @ + 1]
           /\ db' = IF r.user \in Users
                    THEN [db EXCEPT ![r.user].secret = secretKey]
                    ELSE db
           /\ thr' = [thr EXCEPT ![t] = Done([r EXCEPT !.ret = <<secretKey>>], "setup")]
    /\ UNCHANGED <<now, ticks, sessions, objs, lsessions, lobjs>>

(* GetUserTwoFAStatus: SELECT two_fa_enabled of the row *)
GetUserTwoFAStatus(u) == db[u].enabled

(* ------------------------------- time ---------------------------------- *)
Jumps == {PendingTTL, AuthTTL}
LoginJumps == {LoginTempTTL, LoginTTL}

Tick(d) ==
    /\ ticks < MaxTicks
    /\ now' = now + d
    /\ ticks' = ticks + 1
    /\ UNCHANGED <<db, rng, thr, sessions, objs, lsessions, lobjs>>

(* ---------------------- credentials (authenticateUser) ----------------- *)
(* bcrypt.CompareHashAndPassword succeeds for the password the hash was made
   from and for no other; rows are never deleted, so GetUser(id) of a known
   id succeeds *)
PasswordOf(u) == <<"pw", u>>
WrongPassword == <<"pw", NoUser>>

(* a check that looks at the username only *)
authenticateUser_KnownUser(username, password) == username \in Users

authenticateUser(username, password) ==
    /\ username \in Users
    /\ password = PasswordOf(username)

(* UserService.GetUserByUsername: the error of QueryRow(...).Scan, returned
   as it is: the store answering with no row, the store not answering, or
   none *)
GetUserByUsername(username, up) ==
    IF ~up THEN "unavailable"
    ELSE IF username \notin Users THEN "no rows"
    ELSE "none"

(* ------------------------- TwoFASessionManager ------------------------- *)
(* objs: the TwoFASession objects, by session id; sessions: the keys of the
   map sm.sessions. *)
(* sessions that never expire *)
Expired_Never(s, t) == FALSE

(* time.Now().After(session.ExpiresAt) *)
Expired(s, t) == t > s.expiresAt

(* GetSession: the pointer stored under sessionID, nil (NoToken) when the
   key is absent or the session has expired; the map is not touched *)
GetSession(sessionID) ==
    IF sessionID \in sessions /\ ~Expired(objs[sessionID], now)
    THEN sessionID ELSE NoToken

(* a session created as already authenticated *)
NewSession_Authenticated(userID, t) ==
    [userID |-> userID, createdAt |-> t, expiresAt |-> t + PendingTTL,
     authenticated |-> TRUE]

(* the session CreateSession builds; the clock reads of one call give the
   same instant *)
NewSession(userID, t) ==
    [userID |-> userID, createdAt |-> t, expiresAt |-> t + PendingTTL,
     authenticated |-> FALSE]

(* CreateSession under the write lock; th is the new thread state, which
   may hold the returned pointer *)
CreateSession(userID, th) ==
    LET sessionID == rng.token + 1 IN
    /\ rng' = [rng EXCEPT !.token = sessionID]
    /\ sessions' = sessions \cup {sessionID}
    /\ objs' = Collect([k \in (DOMAIN objs) \cup {sessionID} |->
                        IF k = sessionID THEN NewSession(userID, now)
                        ELSE objs[k]],
                    sessions', th)

MarkOk(sessionID) == sessionID \in sessions /\ ~Expired(objs[sessionID], now)

(* a promotion that leaves the expiry alone *)
Promote_NoExtend(s, t) == [s EXCEPT !.authenticated = TRUE]

Promote(s, t) == [s EXCEPT !.authenticated = TRUE, !.expiresAt = t + AuthTTL]

(* MarkAuthenticated under the write lock: the objects after the call *)
MarkAuthenticated(sessionID) ==
    IF MarkOk(sessionID)
    THEN [objs EXCEPT ![sessionID] = Promote(@, now)]
    ELSE objs

(* a deletion that empties the map *)
DeleteSession_All(sessionID) == {}

DeleteSession(sessionID) == sessions \ {sessionID}

(* requests that will call CreateSession and have not done so yet *)
Creating == {t \in Threads : thr[t].pc \in {"ba_create", "bt_create", "ce_create"}}
CanCreate == rng.token + Cardinality(Creating) < MaxSessions

(* ------------------------ ImprovedAuthMiddleware ----------------------- *)
(* the gateway is studied from the state in which the subjects of Enrolled
   have each gone through GenerateTwoFASetup and EnableTwoFA, one after the
   other, with the secret u and the batch u of backup codes *)
Enrolled == {1, 2}

(* the credentials and codes requests are made with *)
Logins == {<<u, PasswordOf(u)>> : u \in Users} \cup {<<1, WrongPassword>>, <<NoUser, WrongPassword>>}
StoreLogins == {<<1, PasswordOf(1)>>, <<3, PasswordOf(3)>>, <<1, WrongPassword>>}
StoreCodes == {JunkCode, GenerateCode(db[1].secret, now)}
OwnCodes(u) ==
    IF u \in Enrolled
    THEN {JunkCode, GenerateCode(db[u].secret, now), BackupCode(u, 1)}
    ELSE {JunkCode}

SessionIDs == {UnknownToken} \cup 1..rng.token

GatewayCodes ==
    {JunkCode} \cup {GenerateCode(db[u].secret, now) : u \in Enrolled}
               \cup {BackupCode(g, 1) : g \in 1..rng.batch}

(* handle2FASession: the lookup *)
handle2FASession(t, sessionID) ==
    /\ Free(t)
    /\ sessionID \notin {NoToken, BasicAuthToken}
    /\ LET r == Start("handle2FASession", "hs_read", NoUser, NoCode, sessionID)
           p == GetSession(sessionID)
       IN  thr' = [thr EXCEPT ![t] =
              IF p = NoToken THEN Reply(r, "Invalid or expired 2FA session")
              ELSE [r EXCEPT !.ptr = p]]
    /\ objs' = Collect(objs, sessions, thr')
    /\ UNCHANGED <<db, rng, now, ticks, sessions, lsessions, lobjs>>

(* handle2FASession: reads session.Authenticated and session.UserID through
   the pointer, after the lock is released *)
SessionDecide(t) ==
    /\ thr[t].pc = "hs_read"
    /\ LET r == thr[t]
           session == objs[r.ptr]
       IN  thr' = [thr EXCEPT ![t] =
              IF ~session.authenticated THEN Reply(r, "2FA verification required")
              ELSE Reply([r EXCEPT !.subject = session.userID], "forwarded")]
    /\ objs' = Collect(objs, sessions, thr')
    /\ UNCHANGED <<db, rng, now, ticks, sessions, lsessions, lobjs>>

(* handle2FAVerification and Verify2FAEndpoint: the lookup *)
VerificationLookup(t, op, sessionID, code) ==
    /\ Free(t)
    /\ LET r == Start(op, "vt_select", NoUser, code, sessionID)
           p == GetSession(sessionID)
       IN  thr' = [thr EXCEPT ![t] =
              IF p = NoToken THEN Reply(r, "Invalid or expired 2FA session")
              ELSE [r EXCEPT !.ptr = p, !.user = objs[p].userID]]
    /\ objs' = Collect(objs, sessions, thr')
    /\ UNCHANGED <<db, rng, now, ticks, sessions, lsessions, lobjs>>

handle2FAVerification(t, sessionID, code) ==
    /\ sessionID \notin {NoToken, BasicAuthToken}
    /\ code # NoCode
    /\ VerificationLookup(t, "handle2FAVerification", sessionID, code)

Verify2FAEndpoint(t, sessionID, code) ==
    VerificationLookup(t, "Verify2FAEndpoint", sessionID, code)

(* handle2FAVerification after a valid code: MarkAuthenticated, then GetUser *)
VerificationMark(t) ==
    /\ thr[t].pc = "hv_mark"
    /\ LET r == thr[t] IN
         /\ thr' = [thr EXCEPT ![t] =
               IF MarkOk(r.tok)
               THEN Reply([r EXCEPT !.subject = r.user], "forwarded")
               ELSE Reply(r, "Session expired during verification")]
         /\ objs' = Collect(MarkAuthenticated(r.tok), sessions, thr')
    /\ UNCHANGED <<db, rng, now, ticks, sessions, lsessions, lobjs>>

(* Verify2FAEndpoint after a valid code: MarkAuthenticated, result unused *)
EndpointMark(t) ==
    /\ thr[t].pc = "ve_mark"
    /\ LET r == thr[t] IN
         /\ thr' = [thr EXCEPT ![t] = Reply(r, "2FA verification successful")]
         /\ objs' = Collect(MarkAuthenticated(r.tok), sessions, thr')
    /\ UNCHANGED <<db, rng, now, ticks, sessions, lsessions, lobjs>>

(* handleBasicAuth: authenticateUser and the branch on user.TwoFAEnabled *)
handleBasicAuth(t, username, password, code) ==
    /\ Free(t)
    /\ LET r == Start("handleBasicAuth", "done", username, code, NoToken) IN
       IF ~authenticateUser(username, password)
       THEN thr' = [thr EXCEPT ![t] = Reply(r, "Invalid credentials")]
       ELSE IF ~db[username].enabled
       THEN thr' = [thr EXCEPT ![t] = Reply([r EXCEPT !.subject = username], "forwarded")]
       ELSE IF code # NoCode
       THEN thr' = [thr EXCEPT ![t] = [r EXCEPT !.pc = "vt_select"]]
       ELSE /\ CanCreate
            /\ thr' = [thr EXCEPT ![t] = [r EXCEPT !.pc = "ba_create"]]
    /\ objs' = Collect(objs, sessions, thr')
    /\ UNCHANGED <<db, rng, now, ticks, sessions, lsessions, lobjs>>

(* handleBasicAuth when the Users query fails because the store does not
   answer: authenticateUser hands the error up and the handler answers as
   for every error of authenticateUser; err marks the cause in the reply *)
handleBasicAuthStoreDown(t, username, password) ==
    /\ Free(t)
    /\ GetUserByUsername(username, FALSE) # "none"
    /\ LET r == Start("handleBasicAuth", "done", username, NoCode, NoToken) IN
         thr' = [thr EXCEPT ![t] =
                    [Reply(r, "Invalid credentials") EXCEPT !.err = TRUE]]
    /\ objs' = Collect(objs, sessions, thr')
    /\ UNCHANGED <<db, rng, now, ticks, sessions, lsessions, lobjs>>

(* handleBasicAuth, handleBasicAuthTo2FATransition and Create2FAEndpoint:
   CreateSession and the response carrying the new session id *)
ChallengeCreate(t) ==
    /\ thr[t].pc \in {"ba_create", "bt_create", "ce_create"}
    /\ LET r == thr[t] IN
         /\ thr' = [thr EXCEPT ![t] =
                Reply([r EXCEPT !.ret = <<rng.token + 1>>],
                      IF r.pc = "ba_create" THEN "2FA code required"
                      ELSE "2FA verification required")]
         /\ CreateSession(r.user, thr')
    /\ UNCHANGED <<db, now, ticks, lsessions, lobjs>>

(* a transition that does not call authenticateUser *)
handleBasicAuthTo2FATransition_NoCheck(t, username, password) ==
    /\ Free(t)
    /\ LET r == Start("handleBasicAuthTo2FATransition", "done", username, NoCode,
                      BasicAuthToken) IN
       IF username \notin Users
       THEN thr' = [thr EXCEPT ![t] = Reply(r, "Invalid credentials")]
       ELSE IF ~db[username].enabled
       THEN thr' = [thr EXCEPT ![t] = Reply([r EXCEPT !.subject = username], "forwarded")]
       ELSE /\ CanCreate
            /\ thr' = [thr EXCEPT ![t] = [r EXCEPT !.pc = "bt_create"]]
    /\ objs' = Collect(objs, sessions, thr')
    /\ UNCHANGED <<db, rng, now, ticks, sessions, lsessions, lobjs>>

(* handleBasicAuthTo2FATransition: authenticateUser and the branch *)
handleBasicAuthTo2FATransition(t, username, password) ==
    /\ Free(t)
    /\ LET r == Start("handleBasicAuthTo2FATransition", "done", username, NoCode,
                      BasicAuthToken) IN
       IF ~authenticateUser(username, password)
       THEN thr' = [thr EXCEPT ![t] = Reply(r, "Invalid credentials")]
       ELSE IF ~db[username].enabled
       THEN thr' = [thr EXCEPT ![t] = Reply([r EXCEPT !.subject = username], "forwarded")]
       ELSE /\ CanCreate
            /\ thr' = [thr EXCEPT ![t] = [r EXCEPT !.pc = "bt_create"]]
    /\ objs' = Collect(objs, sessions, thr')
    /\ UNCHANGED <<db, rng, now, ticks, sessions, lsessions, lobjs>>

(* an initiation that never asks for the setup *)
Create2FAEndpoint_NoSetupCheck(t, username, password) ==
    /\ Free(t)
    /\ LET r == Start("Create2FAEndpoint", "done", username, NoCode, NoToken) IN
       IF ~authenticateUser(username, password)
       THEN thr' = [thr EXCEPT ![t] = Reply(r, "Invalid credentials")]
       ELSE /\ CanCreate
            /\ thr' = [thr EXCEPT ![t] = [r EXCEPT !.pc = "ce_create"]]
    /\ objs' = Collect(objs, sessions, thr')
    /\ UNCHANGED <<db, rng, now, ticks, sessions, lsessions, lobjs>>

(* Create2FAEndpoint (POST /2fa/initiate): authenticateUser and the branch
   on user.TwoFAEnabled of the row read; the answer for a subject without
   2FA carries the placeholder "setup-required" where a session id goes *)
Create2FAEndpoint(t, username, password) ==
    /\ Free(t)
    /\ LET r == Start("Create2FAEndpoint", "done", username, NoCode, NoToken) IN
       IF ~authenticateUser(username, password)
       THEN thr' = [thr EXCEPT ![t] = Reply(r, "Invalid credentials")]
       ELSE IF ~db[username].enabled
       THEN thr' = [thr EXCEPT ![t] =
                      Reply([r EXCEPT !.ret = <<SetupRequiredToken>>], "2FA setup required")]
       ELSE /\ CanCreate
            /\ thr' = [thr EXCEPT ![t] = [r EXCEPT !.pc = "ce_create"]]
    /\ objs' = Collect(objs, sessions, thr')
    /\ UNCHANGED <<db, rng, now, ticks, sessions, lsessions, lobjs>>

(* SmartAuth: dispatch on the X-2FA-Session-ID and X-2FA-Code headers *)
SmartAuth(t, sessionID, code, username, password) ==
    IF sessionID # NoToken
    THEN IF sessionID = BasicAuthToken
         THEN handleBasicAuthTo2FATransition(t, username, password)
         ELSE IF code # NoCode
         THEN handle2FAVerification(t, sessionID, code)
         ELSE handle2FASession(t, sessionID)
    ELSE handleBasicAuth(t, username, password, code)

(* LogoutEndpoint with a session id *)
LogoutEndpoint(sessionID) ==
    /\ sessionID # NoToken
    /\ sessions' = DeleteSession(sessionID)
    /\ objs' = Collect(objs, sessions', thr)
    /\ UNCHANGED <<db, rng, now, ticks, thr, lsessions, lobjs>>

(* one round of the cleanup goroutine *)
cleanup ==
    /\ sessions' = {k \in sessions : ~Expired(objs[k], now)}
    /\ objs' = Collect(objs, sessions', thr)
    /\ UNCHANGED <<db, rng, now, ticks, thr, lsessions, lobjs>>

(* ClearAllSessionsEndpoint called by an admin *)
ClearAllSessionsEndpoint ==
    /\ sessions' = {}
    /\ objs' = Collect(objs, sessions', thr)
    /\ UNCHANGED <<db, rng, now, ticks, thr, lsessions, lobjs>>

(* ------------------ SessionManager and SessionAuthHandler -------------- *)
(* lobjs: the Session objects, by session id; lsessions: the keys of the map
   sm.sessions.  The manager has no lock.  The copies of the user's name
   and role are left out. *)
Session(userID, twoFAVerified, t) ==
    [userID |-> userID, twoFAEnabled |-> db[userID].enabled,
     twoFAVerified |-> twoFAVerified, createdAt |-> t, lastAccessedAt |-> t,
     expiresAt |-> t + LoginTTL]

(* SessionManager.CreateSession; th is the new thread state, which may hold
   the returned pointer *)
SessionManager_CreateSession(userID, twoFAVerified, th) ==
    LET sessionID == rng.token + 1 IN
    /\ rng' = [rng EXCEPT !.token = sessionID]
    /\ lsessions' = lsessions \cup {sessionID}
    /\ lobjs' = Collect([k \in (DOMAIN lobjs) \cup {sessionID} |->
                         IF k = sessionID THEN Session(userID, twoFAVerified, now)
                         ELSE lobjs[k]],
                     lsessions', th)

(* a lookup with the same answer that writes nothing *)
SessionManager_GetSession_ReadOnly(sessionID) ==
    [ok |-> sessionID \in lsessions /\ now <= lobjs[sessionID].expiresAt,
     keys |-> lsessions, objs |-> lobjs]

(* SessionManager.GetSession: whether a session is returned, and the map
   and the objects it leaves: an expired entry is deleted, the session
   returned has its LastAccessedAt set *)
SessionManager_GetSession(sessionID) ==
    IF sessionID \notin lsessions
    THEN [ok |-> FALSE, keys |-> lsessions, objs |-> lobjs]
    ELSE IF now > lobjs[sessionID].expiresAt
    THEN [ok |-> FALSE, keys |-> lsessions \ {sessionID}, objs |-> lobjs]
    ELSE [ok |-> TRUE, keys |-> lsessions,
          objs |-> [lobjs EXCEPT ![sessionID].lastAccessedAt = now]]

(* SessionManager.UpdateSession2FA *)
UpdateSession2FA(sessionID, verified) ==
    /\ sessionID \in lsessions
    /\ lobjs' = [lobjs EXCEPT ![sessionID].twoFAVerified = verified]
    /\ UNCHANGED <<db, rng, now, ticks, thr, sessions, objs, lsessions>>

(* SessionAuthHandler.Login up to and including CreateSession *)
Login(t, username, password) ==
    /\ Free(t)
    /\ LET r == Start("Login", "done", username, NoCode, NoToken) IN
       IF ~authenticateUser(username, password)
       THEN /\ thr' = [thr EXCEPT ![t] = Reply(r, "Invalid username or password")]
            /\ lobjs' = Collect(lobjs, lsessions, thr')
            /\ UNCHANGED <<rng, lsessions>>
       ELSE /\ CanCreate
            /\ thr' = [thr EXCEPT ![t] =
                  IF db[username].enabled
                  THEN [r EXCEPT !.pc = "lg_expire", !.ptr = rng.token + 1]
                  ELSE Reply([r EXCEPT !.ret = <<rng.token + 1>>, !.subject = username],
                             "Login successful")]
            /\ SessionManager_CreateSession(username, ~db[username].enabled, thr')
    /\ objs' = Collect(objs, sessions, thr')
    /\ UNCHANGED <<db, now, ticks, sessions>>

(* Login for a 2FA subject: tempSession.ExpiresAt = now + 5 min, written
   through the pointer after the session is in the map, and the challenge *)
LoginExpire(t) ==
    /\ thr[t].pc = "lg_expire"
    /\ LET r == thr[t] IN
       /\ thr' = [thr EXCEPT ![t] =
                    Reply([r EXCEPT !.ret = <<r.ptr>>], "2FA verification required")]
       /\ lobjs' = Collect([lobjs EXCEPT ![r.ptr].expiresAt = now + LoginTempTTL],
                           lsessions, thr')
    /\ UNCHANGED <<db, rng, now, ticks, sessions, objs, lsessions>>

(* SessionAuthHandler.Verify2FA: GetSession of the temporary session *)
Verify2FA(t, sessionID, code) ==
    /\ Free(t)
    /\ LET r == Start("Verify2FA", "vt_select", NoUser, code, sessionID)
           g == SessionManager_GetSession(sessionID)
       IN  /\ thr' = [thr EXCEPT ![t] =
                 IF ~g.ok THEN Reply(r, "Invalid or expired session")
                 ELSE [r EXCEPT !.ptr = sessionID, !.user = lobjs[sessionID].userID]]
           /\ lsessions' = g.keys
           /\ lobjs' = Collect(g.objs, lsessions', thr')
    /\ objs' = Collect(objs, sessions, thr')
    /\ UNCHANGED <<db, rng, now, ticks, sessions>>

(* Verify2FA after a valid code: TwoFAVerified and ExpiresAt written through
   the pointer, then GetUser and the response *)
Verify2FAUpdate(t) ==
    /\ thr[t].pc = "lv_update"
    /\ LET r == thr[t] IN
       /\ thr' = [thr EXCEPT ![t] =
                    Reply([r EXCEPT !.ret = <<r.tok>>, !.subject = r.user],
                          "2FA verification successful")]
       /\ lobjs' = Collect([lobjs EXCEPT ![r.ptr].twoFAVerified = TRUE,
                                         ![r.ptr].expiresAt = now + LoginTTL],
                           lsessions, thr')
    /\ UNCHANGED <<db, rng, now, ticks, sessions, objs, lsessions>>

(* SessionAuthHandler.GetSessionInfo with a session id *)
GetSessionInfo(t, sessionID) ==
    /\ Free(t)
    /\ sessionID # NoToken
    /\ LET r == Start("GetSessionInfo", "done", NoUser, NoCode, sessionID)
           g == SessionManager_GetSession(sessionID)
       IN  /\ thr' = [thr EXCEPT ![t] =
                 IF ~g.ok THEN Reply(r, "Invalid or expired session")
                 ELSE Reply([r EXCEPT !.subject = lobjs[sessionID].userID], "session info")]
           /\ lsessions' = g.keys
           /\ lobjs' = Collect(g.objs, lsessions', thr')
    /\ objs' = Collect(objs, sessions, thr')
    /\ UNCHANGED <<db, rng, now, ticks, sessions>>

(* SessionAuthHandler.Logout with a session id: SessionManager.DeleteSession *)
Logout(sessionID) ==
    /\ sessionID # NoToken
    /\ lsessions' = lsessions \ {sessionID}
    /\ lobjs' = Collect(lobjs, lsessions', thr)
    /\ UNCHANGED <<db, rng, now, ticks, thr, sessions, objs>>

(* ------------------------------ initial -------------------------------- *)
(* rows as CreateUser leaves them: no secret, 2FA off, no backup codes *)
NewRow == [secret |-> EmptySecret, enabled |-> FALSE, backup |-> EmptyText]

Init ==
    /\ db = [u \in Users |-> NewRow]
    /\ rng = [batch |-> 0, token |-> 0, secret |-> 0]
    /\ now = 0
    /\ ticks = 0
    /\ thr = [t \in Threads |-> Idle]
    /\ sessions = {}
    /\ objs = <<>>
    /\ lsessions = {}
    /\ lobjs = <<>>

InitGateway ==
    /\ db = [u \in Users |-> IF u \in Enrolled THEN EnabledRow(u, u) ELSE NewRow]
    /\ rng = [batch |-> Cardinality(Enrolled), token |-> 0, secret |-> 0]
    /\ now = 0
    /\ ticks = 0
    /\ thr = [t \in Threads |-> Idle]
    /\ sessions = {}
    /\ objs = <<>>
    /\ lsessions = {}
    /\ lobjs = <<>>

(* secrets a client may send to EnableTwoFA, and codes for them *)
ClientSecrets(u) == {1, db[u].secret}
EnableCodes(s) == {GenerateCode(s, now), JunkCode}

(* -------------------- TwoFAService, calls one at a time ---------------- *)
Quiet == \A t \in Threads : Free(t)
Caller == {1}

NextSeq ==
    \/ \E t \in Caller, u \in {1} : \E c \in SeqCodes(u) :
          Quiet /\ VerifyTwoFACode(t, u, c)
    \/ \E t \in Threads : VerifySelect(t)
    \/ \E t \in Threads : VerifyUpdate(t)
    \/ \E t \in Caller, u \in {1} : \E s \in ClientSecrets(u) : \E c \in EnableCodes(s) :
          Quiet /\ EnableTwoFA(t, u, s, c)
    \/ \E u \in {1} : Quiet /\ DisableTwoFA(u)
    \/ \E t \in Caller, u \in {1, NoUser} : Quiet /\ GenerateTwoFASetup(t, u)
    \/ \E t \in Threads : SetupStore(t)

SpecSeq == Init /\ [][NextSeq]_vars

(* -------------------- TwoFAService, concurrent calls ------------------- *)
NextConc ==
    \/ \E t \in Threads, u \in {1} : \E c \in TriedCodes(u, MaxTried) :
          VerifyTwoFACode(t, u, c)
    \/ \E t \in Threads : VerifySelect(t)
    \/ \E t \in Threads : VerifyUpdate(t)
    \/ \E t \in Threads, u \in {1} : \E s \in ClientSecrets(u) : \E c \in EnableCodes(s) :
          EnableTwoFA(t, u, s, c)
    \/ \E u \in {1} : DisableTwoFA(u)

SpecConc == Init /\ [][NextConc]_vars

(* --------- ImprovedAuthMiddleware with the TwoFASessionManager --------- *)
Next ==
    \/ \E t \in Caller, sid \in SessionIDs : handle2FASession(t, sid)
    \/ \E t \in Caller : SessionDecide(t)
    \/ \E t \in Caller, sid \in SessionIDs : \E c \in GatewayCodes :
          handle2FAVerification(t, sid, c)
    \/ \E t \in Caller, sid \in SessionIDs : \E c \in GatewayCodes :
          Verify2FAEndpoint(t, sid, c)
    \/ \E t \in Caller : VerifySelect(t)
    \/ \E t \in Caller : VerifyUpdate(t)
    \/ \E t \in Caller : VerificationMark(t)
    \/ \E t \in Caller : EndpointMark(t)
    \/ \E t \in Caller, l \in Logins : \E c \in {NoCode} \cup OwnCodes(l[1]) :
          handleBasicAuth(t, l[1], l[2], c)
    \/ \E t \in Caller, l \in Logins : handleBasicAuthTo2FATransition(t, l[1], l[2])
    \/ \E t \in Caller : ChallengeCreate(t)
    \/ \E sid \in SessionIDs : LogoutEndpoint(sid)
    \/ cleanup
    \/ ClearAllSessionsEndpoint
    \/ \E d \in Jumps : Tick(d)

Spec == InitGateway /\ [][Next]_vars

(* ------ both session stores: password requests and session lookups ----- *)
NextStores ==
    \/ \E t \in Caller, l \in StoreLogins : handleBasicAuth(t, l[1], l[2], NoCode)
    \/ \E t \in Caller : ChallengeCreate(t)
    \/ \E t \in Caller, sid \in SessionIDs : handle2FASession(t, sid)
    \/ \E t \in Caller : SessionDecide(t)
    \/ \E t \in Caller, l \in StoreLogins : Login(t, l[1], l[2])
    \/ \E t \in Caller : LoginExpire(t)
    \/ \E t \in Caller, sid \in SessionIDs : \E c \in StoreCodes : Verify2FA(t, sid, c)
    \/ \E t \in Caller : VerifySelect(t)
    \/ \E t \in Caller : Verify2FAUpdate(t)
    \/ \E t \in Caller, sid \in SessionIDs : GetSessionInfo(t, sid)
    \/ \E sid \in SessionIDs : Logout(sid)
    \/ \E sid \in SessionIDs, b \in BOOLEAN : UpdateSession2FA(sid, b)
    \/ cleanup
    \/ \E d \in LoginJumps : Tick(d)

SpecStores == InitGateway /\ [][NextStores]_vars

(* ------------- TwoFAService, TOTP codes of nearby time steps ----------- *)
(* how far, in steps, the step of a submitted code is from the server's *)
MaxOffset == 3
Offsets == (0 - MaxOffset)..MaxOffset
StepJumps == {1, MaxOffset}

NextTotp ==
    \/ \E t \in Caller, k \in Offsets :
          Quiet /\ VerifyTwoFACode(t, 1, GenerateCode(db[1].secret, now + k))
    \/ \E t \in Threads : VerifySelect(t)
    \/ \E t \in Caller, k \in Offsets : \E s \in ClientSecrets(1) :
          Quiet /\ EnableTwoFA(t, 1, s, GenerateCode(s, now + k))
    \/ Quiet /\ DisableTwoFA(1)
    \/ \E d \in StepJumps : Tick(d)

SpecTotp == Init /\ [][NextTotp]_vars

(* --------- the two session maps, accesses begun and completed ---------- *)
(* A map access is two steps: the request gets to the statement that reads
   or writes the map (for the TwoFASessionManager, it has taken sm.mutex),
   and the statement is done (and the mutex released).  Who holds sm.mutex
   is read off the threads' positions. *)
Holding(pc) == {t \in Threads : thr[t].pc = pc}
Drawing == Cardinality(Holding("cs_locked") \cup Holding("lc_write"))

(* TwoFASessionManager.CreateSession: sm.mutex.Lock() *)
CreateSessionLock(t, userID) ==
    /\ Free(t)
    /\ rng.token + Drawing < MaxSessions
    /\ Holding("cs_locked") = {} /\ Holding("gs_rlocked") = {}
    /\ Holding("cl_locked") = {}
    /\ thr' = [thr EXCEPT ![t] = Start("CreateSession", "cs_locked", userID, NoCode, NoToken)]
    /\ UNCHANGED <<db, rng, now, ticks, sessions, objs, lsessions, lobjs>>

(* TwoFASessionManager.CreateSession: the insert, the deferred Unlock *)
CreateSessionUnlock(t) ==
    /\ thr[t].pc = "cs_locked"
    /\ LET r == thr[t] IN
         /\ thr' = [thr EXCEPT ![t] = Done([r EXCEPT !.ret = <<rng.token + 1>>], "created")]
         /\ CreateSession(r.user, thr')
    /\ UNCHANGED <<db, now, ticks, lsessions, lobjs>>

(* TwoFASessionManager.GetSession: sm.mutex.RLock() *)
GetSessionRLock(t, sessionID) ==
    /\ Free(t)
    /\ Holding("cs_locked") = {} /\ Holding("cl_locked") = {}
    /\ thr' = [thr EXCEPT ![t] = Start("GetSession", "gs_rlocked", NoUser, NoCode, sessionID)]
    /\ UNCHANGED <<db, rng, now, ticks, sessions, objs, lsessions, lobjs>>

(* TwoFASessionManager.GetSession: the lookup, the deferred RUnlock *)
GetSessionRUnlock(t) ==
    /\ thr[t].pc = "gs_rlocked"
    /\ LET r == thr[t] IN
         thr' = [thr EXCEPT ![t] =
                   Done([r EXCEPT !.ret = <<GetSession(r.tok)>>],
                        IF GetSession(r.tok) = NoToken THEN "not found" ELSE "found")]
    /\ UNCHANGED <<db, rng, now, ticks, sessions, objs, lsessions, lobjs>>

(* SessionAuthHandler.Login of a subject without 2FA, at the statement
   sm.sessions[sessionID] = session of SessionManager.CreateSession, which
   no lock precedes *)
LoginCreateBegin(t, username) ==
    /\ Free(t)
    /\ ~db[username].enabled
    /\ rng.token + Drawing < MaxSessions
    /\ thr' = [thr EXCEPT ![t] = Start("Login", "lc_write", username, NoCode, NoToken)]
    /\ UNCHANGED <<db, rng, now, ticks, sessions, objs, lsessions, lobjs>>

(* the map assignment done, and the response of Login *)
LoginCreateEnd(t) ==
    /\ thr[t].pc = "lc_write"
    /\ LET r == thr[t] IN
         /\ thr' = [thr EXCEPT ![t] =
                      Reply([r EXCEPT !.ret = <<rng.token + 1>>, !.subject = r.user],
                            "Login successful")]
         /\ SessionManager_CreateSession(r.user, TRUE, thr')
    /\ UNCHANGED <<db, now, ticks, sessions, objs>>

(* two goroutines assigning to one map at once: the Go runtime may detect
   it and abort the process ("fatal error: concurrent map writes"), which
   takes both in-memory stores and every request in flight with it; when it
   does not, the assignments complete in some order *)
ConcurrentMapFault ==
    /\ Cardinality(Holding("lc_write")) > 1
    /\ thr' = [t \in Threads |-> Idle]
    /\ sessions' = {} /\ objs' = <<>>
    /\ lsessions' = {} /\ lobjs' = <<>>
    /\ UNCHANGED <<db, rng, now, ticks>>

NextLocks ==
    \/ \E t \in Threads : CreateSessionLock(t, 1)
    \/ \E t \in Threads : CreateSessionUnlock(t)
    \/ \E t \in Threads, sid \in SessionIDs : GetSessionRLock(t, sid)
    \/ \E t \in Threads : GetSessionRUnlock(t)
    \/ \E t \in Threads : LoginCreateBegin(t, 3)
    \/ \E t \in Threads : LoginCreateEnd(t)
    \/ ConcurrentMapFault
    \/ \E d \in Jumps : Tick(d)

SpecLocks == InitGateway /\ [][NextLocks]_vars

(* ------------- the cleanup goroutine and a waiting request ------------- *)
(* the goroutine started by NewTwoFASessionManager runs on the thread that
   serves no request *)
Sweepers == Threads \ Caller

(* a request calls CreateSession and waits at sm.mutex.Lock() *)
CreateSessionCall(t, userID) ==
    /\ Free(t)
    /\ rng.token + Drawing < MaxSessions
    /\ thr' = [thr EXCEPT ![t] = Start("CreateSession", "cs_wait", userID, NoCode, NoToken)]
    /\ UNCHANGED <<db, rng, now, ticks, sessions, objs, lsessions, lobjs>>

(* the waiting request gets the lock *)
CreateSessionAcquire(t) ==
    /\ thr[t].pc = "cs_wait"
    /\ Holding("cs_locked") = {} /\ Holding("gs_rlocked") = {}
    /\ Holding("cl_locked") = {}
    /\ thr' = [thr EXCEPT ![t].pc = "cs_locked"]
    /\ UNCHANGED <<db, rng, now, ticks, sessions, objs, lsessions, lobjs>>

(* cleanup: the ticker fires and sm.mutex.Lock() is taken *)
cleanupLock(t) ==
    /\ Free(t)
    /\ Holding("cs_locked") = {} /\ Holding("gs_rlocked") = {}
    /\ Holding("cl_locked") = {}
    /\ thr' = [thr EXCEPT ![t] = Start("cleanup", "cl_locked", NoUser, NoCode, NoToken)]
    /\ UNCHANGED <<db, rng, now, ticks, sessions, objs, lsessions, lobjs>>

(* a sweep that empties the map *)
cleanupUnlock_All(t) ==
    /\ thr[t].pc = "cl_locked"
    /\ thr' = [thr EXCEPT ![t] = Done(thr[t], "swept")]
    /\ sessions' = {}
    /\ objs' = Collect(objs, sessions', thr')
    /\ UNCHANGED <<db, rng, now, ticks, lsessions, lobjs>>

(* cleanup: the loop over the map with now = time.Now() read once, and
   sm.mutex.Unlock() *)
cleanupUnlock(t) ==
    /\ thr[t].pc = "cl_locked"
    /\ thr' = [thr EXCEPT ![t] = Done(thr[t], "swept")]
    /\ sessions' = {k \in sessions : ~Expired(objs[k], now)}
    /\ objs' = Collect(objs, sessions', thr')
    /\ UNCHANGED <<db, rng, now, ticks, lsessions, lobjs>>

NextSweep ==
    \/ \E t \in Caller : CreateSessionCall(t, 1)
    \/ \E t \in Caller : CreateSessionAcquire(t)
    \/ \E t \in Caller : CreateSessionUnlock(t)
    \/ \E t \in Sweepers : cleanupLock(t)
    \/ \E t \in Sweepers : cleanupUnlock(t)
    \/ \E d \in Jumps : Tick(d)

(* the ticker keeps firing and the sweep runs to its Unlock; sync.Mutex
   hands the lock to a goroutine that has waited (starvation mode), and a
   goroutine that can run does run *)
SweepFairness ==
    /\ \A t \in Sweepers : SF_vars(cleanupLock(t)) /\ WF_vars(cleanupUnlock(t))
    /\ \A t \in Caller : SF_vars(CreateSessionAcquire(t)) /\ WF_vars(CreateSessionUnlock(t))

SpecSweep == InitGateway /\ [][NextSweep]_vars /\ SweepFairness

(* ------- TwoFASessionManager, two requests served at the same time ----- *)
NextRace ==
    \/ \E t \in Threads : handleBasicAuth(t, 1, PasswordOf(1), NoCode)
    \/ \E t \in Threads : ChallengeCreate(t)
    \/ \E t \in Threads, sid \in SessionIDs : handle2FASession(t, sid)
    \/ \E t \in Threads : SessionDecide(t)
    \/ \E t \in Threads, sid \in SessionIDs :
          handle2FAVerification(t, sid, GenerateCode(db[1].secret, now))
    \/ \E t \in Threads : VerifySelect(t)
    \/ \E t \in Threads : VerificationMark(t)

SpecRace == InitGateway /\ [][NextRace]_vars

(* ------------ TwoFAService, one call at a time, failing writes --------- *)
NextWriteFail ==
    \/ \E t \in Caller, u \in {1} : \E c \in SeqCodes(u) :
          Quiet /\ VerifyTwoFACode(t, u, c)
    \/ \E t \in Threads : VerifySelect(t)
    \/ \E t \in Threads : VerifyUpdate(t)
    \/ \E t \in Threads : VerifyUpdateFails(t)
    \/ \E t \in Caller, u \in {1} : \E s \in ClientSecrets(u) : \E c \in EnableCodes(s) :
          Quiet /\ EnableTwoFA(t, u, s, c)

SpecWriteFail == Init /\ [][NextWriteFail]_vars

(* ------------- TwoFAService and UserService, record writers ------------ *)
(* UserService.CreateUser as UserHandler.CreateUser calls it: the INSERT
   takes two_fa_secret and two_fa_enabled from the request body and writes
   '' for the backup codes; the new row gets the next user_id *)
CreateUser(secret, enabled) ==
    /\ Cardinality(DOMAIN db) < MaxRows
    /\ LET id == Cardinality(DOMAIN db) + 1 IN
         db' = [u \in (DOMAIN db) \cup {id} |->
                  IF u = id
                  THEN [secret |-> secret, enabled |-> enabled, backup |-> EmptyText]
                  ELSE db[u]]
    /\ UNCHANGED <<rng, now, ticks, thr, sessions, objs, lsessions, lobjs>>

NextRecords ==
    \/ \E s \in {EmptySecret, 1}, e \in BOOLEAN : CreateUser(s, e)
    \/ \E t \in Threads : \E s \in ClientSecrets(1) : \E c \in EnableCodes(s) :
          EnableTwoFA(t, 1, s, c)
    \/ DisableTwoFA(1)
    \/ \E t \in Threads : GenerateTwoFASetup(t, 1)
    \/ \E t \in Threads : SetupStore(t)

SpecRecords == Init /\ [][NextRecords]_vars

(* ------------- GenerateTwoFASetup, calls served together -------------- *)
(* POST /2fa/setup requests of the subjects, each on its own goroutine;
   nothing else writes the rows *)
NextSetup ==
    \/ \E t \in Threads, u \in Users : GenerateTwoFASetup(t, u)
    \/ \E t \in Threads : SetupStore(t)

SpecSetup == Init /\ [][NextSetup]_vars

(* ---------- session creation while 2FA is switched off and on ---------- *)
NextInitiate ==
    \/ \E t \in Caller, l \in Logins : Create2FAEndpoint(t, l[1], l[2])
    \/ \E t \in Caller, l \in Logins : handleBasicAuth(t, l[1], l[2], NoCode)
    \/ \E t \in Caller, l \in Logins : handleBasicAuthTo2FATransition(t, l[1], l[2])
    \/ \E t \in Caller : ChallengeCreate(t)
    \/ \E u \in Enrolled : DisableTwoFA(u)
    \/ \E sid \in SessionIDs : LogoutEndpoint(sid)
    \/ \E d \in Jumps : Tick(d)

SpecInitiate == InitGateway /\ [][NextInitiate]_vars

(* ------------- password requests with a store that can fail ------------ *)
NextFaults ==
    \/ \E t \in Caller, l \in Logins : handleBasicAuth(t, l[1], l[2], NoCode)
    \/ \E t \in Caller, l \in Logins : handleBasicAuthStoreDown(t, l[1], l[2])
    \/ \E t \in Caller : ChallengeCreate(t)
    \/ \E sid \in SessionIDs : LogoutEndpoint(sid)
    \/ cleanup
    \/ \E d \in Jumps : Tick(d)

SpecFaults == InitGateway /\ [][NextFaults]_vars

(* ============================== claims ================================= *)
(* a call of VerifyTwoFA made by TwoFAHandler.VerifyTwoFACode returns in this step *)
VerifyReturns(t) ==
    /\ thr[t].op = "VerifyTwoFACode"
    /\ thr[t].pc \in {"vt_select", "vt_update"}
    /\ thr'[t].pc = "done"

HeldAnswers(u, c) ==
    {t \in Threads : /\ thr[t].op = "VerifyTwoFACode" /\ thr[t].pc = "done"
                     /\ thr[t].user = u /\ thr[t].code = c}

(* C1: of the VerifyTwoFA calls of one subject that submit the same stored
   backup code, exactly one returns true and the others false: among the
   answers the callers hold for one backup code no two are true. *)
C1_OneSuccessPerBackupCode ==
    \A u \in Users : \A c \in IssuedCodes :
        Cardinality({t \in HeldAnswers(u, c) : thr[t].valid}) <= 1

(* C2: with calls made one after the other, VerifyTwoFA accepts a backup code
   exactly when it is in the stored list of a subject with 2FA enabled, the
   accepted code and only that code leaves the list, a rejected call leaves
   the row alone, no step brings back a code, and EnableTwoFA hands out 10
   different codes: each code is accepted once and never again, also after
   all 10 are used. *)
C2_BackupCodeOnce ==
    [][ /\ \A t \in Threads :
            (VerifyReturns(t) /\ IsBackup(thr[t].code)) =>
                LET u == thr[t].user
                    c == thr[t].code
                IN  /\ thr'[t].valid <=> (db[u].enabled /\ c \in StoredCodes(db[u]))
                    /\ thr'[t].valid =>
                          /\ db'[u].backup.items =
                                RemoveAt(db[u].backup.items, FirstIndex(db[u].backup.items, c))
                          /\ c \notin StoredCodes(db'[u])
                          /\ Len(db'[u].backup.items) = Len(db[u].backup.items) - 1
                    /\ ~thr'[t].valid => db' = db
        /\ \A u \in Users : \A c \in StoredCodes(db'[u]) \ StoredCodes(db[u]) :
              c[2] > rng.batch
        /\ \A t \in Threads :
              (thr'[t].op = "EnableTwoFA" /\ thr'[t].out = "enabled") =>
                 /\ Len(thr'[t].ret) = NumBackupCodes
                 /\ Cardinality(Range(thr'[t].ret)) = NumBackupCodes
      ]_vars

(* all 10 codes of the latest batch are used and one of them was just refused *)
C2_Witness ==
    \E t \in Threads :
        /\ thr[t].op = "VerifyTwoFACode" /\ thr[t].pc = "done"
        /\ IsBackup(thr[t].code) /\ thr[t].code[2] = rng.batch
        /\ ~thr[t].valid /\ ~thr[t].err
        /\ db[thr[t].user].enabled
        /\ db[thr[t].user].backup = Marshal(<<>>)

(* C3: between two successful EnableTwoFA calls the stored backup-code list
   only shrinks: a code that a step adds to the stored list comes from a
   batch generated in that step. *)
C3_ListOnlyShrinks ==
    [][ \A u \in Users : \A c \in StoredCodes(db'[u]) \ StoredCodes(db[u]) :
            c[2] > rng.batch ]_vars

(* the session store as a client can observe it: the entries of the map *)
Store == [k \in sessions |-> objs[k]]

(* C4: a SmartAuth request with a session token (not the sentinel) and no
   code: an absent token or one whose session has now > expiresAt is
   rejected as invalid or expired; an unexpired session is read, and the
   request is forwarded with the session's subject exactly when the session
   read is authenticated, and rejected with "2FA verification required" when
   it is pending; no step of the request changes the session store. *)
C4_TokenOnlyRequest ==
    [][ \A t \in Threads :
          /\ (Free(t) /\ thr'[t].op = "handle2FASession" /\ thr'[t] # thr[t]) =>
              \A sid \in SessionIDs :
                SmartAuth(t, sid, NoCode, NoUser, WrongPassword) =>
                   /\ Store' = Store
                   /\ IF sid \in sessions /\ now <= objs[sid].expiresAt
                      THEN thr'[t].pc = "hs_read" /\ thr'[t].ptr = sid
                      ELSE /\ thr'[t].pc = "done"
                           /\ thr'[t].out = "Invalid or expired 2FA session"
                           /\ thr'[t].subject = NoUser
          /\ (thr[t].pc = "hs_read" /\ thr'[t] # thr[t]) =>
                LET session == objs[thr[t].ptr] IN
                /\ Store' = Store
                /\ thr'[t].pc = "done"
                /\ IF session.authenticated
                   THEN thr'[t].out = "forwarded" /\ thr'[t].subject = session.userID
                   ELSE /\ thr'[t].out = "2FA verification required"
                        /\ thr'[t].subject = NoUser
      ]_vars

(* a token-only request was forwarded for the subject of an authenticated
   session that is still in the store *)
C4_Witness ==
    \E t \in Threads : \E k \in sessions :
        /\ thr[t].op = "handle2FASession" /\ thr[t].pc = "done"
        /\ thr[t].out = "forwarded"
        /\ objs[k].authenticated /\ objs[k].userID = thr[t].subject
        /\ now <= objs[k].expiresAt

(* C5: a token-plus-code request reports success only when MarkAuthenticated
   succeeded for its token: at the step that reports success the session is
   in the store, not expired, and authenticated afterwards. *)
C5_SuccessMeansPromoted ==
    [][ \A t \in Threads :
          ( /\ thr[t].pc \in {"hv_mark", "ve_mark"}
            /\ thr'[t].pc = "done"
            /\ thr'[t].out \in {"forwarded", "2FA verification successful"} ) =>
             LET k == thr[t].tok IN
             /\ k \in sessions /\ now <= objs[k].expiresAt
             /\ k \in sessions' /\ objs'[k].authenticated
      ]_vars

(* the part of C5 that is SmartAuth's handle2FAVerification *)
C5_SmartAuthOnly ==
    [][ \A t \in Threads :
          ( /\ thr[t].pc = "hv_mark"
            /\ thr'[t].pc = "done"
            /\ thr'[t].out = "forwarded" ) =>
             LET k == thr[t].tok IN
             /\ k \in sessions /\ now <= objs[k].expiresAt
             /\ k \in sessions' /\ objs'[k].authenticated
      ]_vars

(* the code is one VerifyTwoFA accepts for subject u now *)
CorrectCode(u, c) ==
    /\ db[u].enabled
    /\ \/ \E i \in (0 - LoopSkew)..LoopSkew : c = GenerateCode(db[u].secret, now + i)
       \/ c \in StoredCodes(db[u])

(* C7: a handle2FAVerification request changes the session store in no step
   but the promotion; with a code that fails it ends with "Invalid 2FA code"
   and the session as it was; with the session still within its expiresAt
   any code is taken to verification and a correct one leads to the
   promotion; with now > expiresAt the request fails as expired whatever
   the code. *)
C7_WrongCodeKeepsSession ==
    [][ \A t \in Threads :
          /\ (Free(t) /\ thr'[t].op = "handle2FAVerification" /\ thr'[t] # thr[t]) =>
              \A sid \in SessionIDs : \A c \in GatewayCodes :
                SmartAuth(t, sid, c, NoUser, WrongPassword) =>
                   /\ Store' = Store
                   /\ IF sid \in sessions /\ now <= objs[sid].expiresAt
                      THEN /\ thr'[t].pc = "vt_select" /\ thr'[t].code = c
                           /\ thr'[t].user = objs[sid].userID
                      ELSE /\ thr'[t].pc = "done"
                           /\ thr'[t].out = "Invalid or expired 2FA session"
          /\ ( /\ thr[t].op = "handle2FAVerification"
               /\ thr[t].pc \in {"vt_select", "vt_update"}
               /\ thr'[t] # thr[t] ) =>
                /\ Store' = Store
                /\ thr[t].pc = "vt_select" =>
                     IF CorrectCode(thr[t].user, thr[t].code)
                     THEN thr'[t].pc \in {"hv_mark", "vt_update"}
                     ELSE thr'[t].pc = "done" /\ thr'[t].out = "Invalid 2FA code"
                /\ thr[t].pc = "vt_update" => thr'[t].pc = "hv_mark"
          /\ ( /\ thr[t].pc = "hv_mark" /\ thr'[t] # thr[t]
               /\ thr[t].tok \in sessions
               /\ now <= objs[thr[t].tok].expiresAt ) =>
                /\ objs'[thr[t].tok].authenticated
                /\ thr'[t].out = "forwarded"
      ]_vars

(* a wrong code was refused for a session that is still pending with the
   expiry CreateSession gave it *)
C7_Witness ==
    \E t \in Threads : \E k \in sessions :
        /\ thr[t].op = "handle2FAVerification" /\ thr[t].pc = "done"
        /\ thr[t].out = "Invalid 2FA code"
        /\ ~objs[k].authenticated
        /\ now > 0 /\ now <= objs[k].expiresAt

(* C9: MarkAuthenticated on a token that is absent or whose session has
   now > expiresAt changes nothing, and its caller that looks at the result
   sees false; otherwise the session gets authenticated = true and
   expiresAt = now + 24 h, its subject stays, no other session changes, no
   key is added or removed, and the caller sees true. *)
C9_MarkAuthenticated ==
    [][ \A t \in Threads :
          (thr[t].pc \in {"hv_mark", "ve_mark"} /\ thr'[t] # thr[t]) =>
             LET k == thr[t].tok IN
             IF k \notin sessions \/ now > objs[k].expiresAt
             THEN /\ Store' = Store
                  /\ thr[t].pc = "hv_mark" =>
                        thr'[t].out = "Session expired during verification"
             ELSE /\ sessions' = sessions
                  /\ objs'[k] = [userID |-> objs[k].userID, createdAt |-> objs[k].createdAt,
                                 authenticated |-> TRUE, expiresAt |-> now + AuthTTL]
                  /\ \A j \in sessions \ {k} : objs'[j] = objs[j]
                  /\ thr[t].pc = "hv_mark" => thr'[t].out = "forwarded"
      ]_vars

(* MarkAuthenticated has promoted one session at the very end of its
   pending life while another session stays pending *)
C9_Witness ==
    \E k \in sessions : \E j \in sessions :
        /\ objs[k].authenticated /\ objs[k].expiresAt = PendingTTL + AuthTTL
        /\ ~objs[j].authenticated

(* MarkAuthenticated was refused for a session that expired after the lookup *)
C9_WitnessRefused ==
    \E t \in Threads :
        /\ thr[t].op = "handle2FAVerification" /\ thr[t].pc = "done"
        /\ thr[t].out = "Session expired during verification"

(* the entries of SessionManager's map *)
LStore == [k \in lsessions |-> lobjs[k]]

(* C6: a stored session that is authenticated stays authenticated for as
   long as it is stored: no step turns authenticated (TwoFASessionManager)
   or TwoFAVerified (SessionManager) of a session that stays in its map
   from true to false. *)
C6_NeverDowngraded ==
    [][ /\ \A k \in sessions \cap sessions' :
             objs[k].authenticated => objs'[k].authenticated
        /\ \A k \in lsessions \cap lsessions' :
             lobjs[k].twoFAVerified => lobjs'[k].twoFAVerified
      ]_vars

(* the part of C6 that is the TwoFASessionManager *)
C6_TwoFASessionsOnly ==
    [][ \A k \in sessions \cap sessions' :
             objs[k].authenticated => objs'[k].authenticated ]_vars

(* C8, as the two handlers have it: a request with correct password
   credentials only.  handleBasicAuth: with 2FA disabled the request is
   forwarded with the subject and no store changes; with 2FA enabled one new
   pending session of the subject is inserted with expiresAt = now + 15 min
   and its id is the challenge, the request is not forwarded.
   SessionAuthHandler.Login: with 2FA disabled one new session of the
   subject is inserted that is verified and expires in 24 h, and its id is
   returned with "Login successful"; with 2FA enabled one new unverified
   session is inserted, its expiry is then set to now + 5 min, and its id
   is returned as the challenge. *)
C8_PasswordOnlyByHandler ==
    [][ \A t \in Threads :
          /\ (Free(t) /\ thr'[t].op = "handleBasicAuth" /\ thr'[t] # thr[t]) =>
              \A u \in Users :
                handleBasicAuth(t, u, PasswordOf(u), NoCode) =>
                   /\ Store' = Store /\ LStore' = LStore /\ rng' = rng
                   /\ IF db[u].enabled
                      THEN thr'[t].pc = "ba_create" /\ thr'[t].user = u
                      ELSE /\ thr'[t].pc = "done" /\ thr'[t].out = "forwarded"
                           /\ thr'[t].subject = u /\ thr'[t].ret = <<>>
          /\ (thr[t].pc = "ba_create" /\ thr'[t] # thr[t]) =>
              \E k \in sessions' \ sessions :
                   /\ sessions' = sessions \cup {k}
                   /\ \A j \in sessions : objs'[j] = objs[j]
                   /\ LStore' = LStore
                   /\ objs'[k] = [userID |-> thr[t].user, createdAt |-> now,
                                  authenticated |-> FALSE,
                                  expiresAt |-> now + PendingTTL]
                   /\ thr'[t].pc = "done" /\ thr'[t].out = "2FA code required"
                   /\ thr'[t].ret = <<k>> /\ thr'[t].subject = NoUser
          /\ (Free(t) /\ thr'[t].op = "Login" /\ thr'[t] # thr[t]) =>
              \A u \in Users :
                Login(t, u, PasswordOf(u)) =>
                   /\ Store' = Store
                   /\ \E k \in lsessions' \ lsessions :
                        /\ lsessions' = lsessions \cup {k}
                        /\ \A j \in lsessions : lobjs'[j] = lobjs[j]
                        /\ lobjs'[k].userID = u
                        /\ IF db[u].enabled
                           THEN /\ ~lobjs'[k].twoFAVerified
                                /\ thr'[t].pc = "lg_expire" /\ thr'[t].ptr = k
                           ELSE /\ lobjs'[k].twoFAVerified
                                /\ lobjs'[k].expiresAt = now + LoginTTL
                                /\ thr'[t].pc = "done"
                                /\ thr'[t].out = "Login successful"
                                /\ thr'[t].ret = <<k>> /\ thr'[t].subject = u
          /\ (thr[t].pc = "lg_expire" /\ thr'[t] # thr[t]) =>
              LET k == thr[t].ptr IN
                   /\ Store' = Store /\ lsessions' = lsessions
                   /\ \A j \in lsessions \ {k} : lobjs'[j] = lobjs[j]
                   /\ k \in lsessions =>
                        lobjs'[k] = [lobjs[k] EXCEPT !.expiresAt = now + LoginTempTTL]
                   /\ thr'[t].pc = "done"
                   /\ thr'[t].out = "2FA verification required"
                   /\ thr'[t].ret = <<k>> /\ thr'[t].subject = NoUser
      ]_vars

(* Login has answered a subject without 2FA with the id of a new verified
   session, and a challenge of handleBasicAuth is pending in the other store *)
C8_Witness ==
    \E t \in Threads : \E j \in sessions :
        /\ thr[t].op = "Login" /\ thr[t].pc = "done"
        /\ thr[t].out = "Login successful"
        /\ thr[t].ret # <<>> /\ thr[t].ret[1] \in lsessions
        /\ lobjs[thr[t].ret[1]].twoFAVerified
        /\ ~db[thr[t].subject].enabled
        /\ ~objs[j].authenticated /\ db[objs[j].userID].enabled

(* C8 as stated: a password-only request of a subject without 2FA creates
   no session and returns no token, and the pending session a 2FA subject
   gets expires 15 minutes after its creation. *)
C8_AsStated ==
    [][ \A t \in Threads :
          /\ ( /\ thr'[t].op \in {"handleBasicAuth", "Login"}
               /\ thr'[t] # thr[t] /\ thr'[t].pc = "done"
               /\ thr'[t].out \in {"forwarded", "Login successful"} ) =>
                /\ sessions' = sessions /\ lsessions' = lsessions
                /\ thr'[t].ret = <<>>
          /\ (thr[t].pc = "ba_create" /\ thr'[t] # thr[t]) =>
                objs'[thr'[t].ret[1]].expiresAt = now + PendingTTL
          /\ (thr[t].pc = "lg_expire" /\ thr'[t] # thr[t] /\ thr[t].ptr \in lsessions) =>
                lobjs'[thr[t].ptr].expiresAt = now + PendingTTL
      ]_vars

(* C10, as the two managers have it.  TwoFASessionManager.GetSession
   changes nothing: the lookup of handle2FASession leaves both maps and
   every stored session as they were, an expired entry included.
   SessionManager.GetSession, called by GetSessionInfo and Verify2FA:
   for an id not in the map nothing changes; for a session with
   now > expiresAt the entry is deleted and not-found is returned; for an
   unexpired session LastAccessedAt is set to now, nothing else of it
   changes and it is returned; no other session changes. *)
C10_GetSessionByManager ==
    [][ \A t \in Threads :
          /\ (Free(t) /\ thr'[t].op = "handle2FASession" /\ thr'[t] # thr[t]) =>
                Store' = Store /\ LStore' = LStore
          /\ (Free(t) /\ thr'[t].op \in {"GetSessionInfo", "Verify2FA"}
                      /\ thr'[t] # thr[t]) =>
              \A sid \in SessionIDs :
                (GetSessionInfo(t, sid) \/ \E c \in StoreCodes : Verify2FA(t, sid, c)) =>
                   /\ Store' = Store
                   /\ \A j \in lsessions \ {sid} :
                         j \in lsessions' /\ lobjs'[j] = lobjs[j]
                   /\ lsessions' \subseteq lsessions
                   /\ IF sid \notin lsessions
                      THEN LStore' = LStore /\ thr'[t].out = "Invalid or expired session"
                      ELSE IF now > lobjs[sid].expiresAt
                      THEN sid \notin lsessions'
                           /\ thr'[t].out = "Invalid or expired session"
                      ELSE /\ sid \in lsessions'
                           /\ lobjs'[sid] = [lobjs[sid] EXCEPT !.lastAccessedAt = now]
                           /\ thr'[t].out # "Invalid or expired session"
      ]_vars

(* GetSessionInfo has returned a session at the last instant of its life,
   created earlier, whose LastAccessedAt is now the time of that call *)
C10_Witness ==
    \E t \in Threads : \E k \in lsessions :
        /\ thr[t].op = "GetSessionInfo" /\ thr[t].pc = "done"
        /\ thr[t].out = "session info"
        /\ lobjs[k].lastAccessedAt = now /\ lobjs[k].expiresAt = now

(* C10 as stated: no GetSession changes a session store *)
C10_AsStated ==
    [][ \A t \in Threads :
          (Free(t) /\ thr'[t].op \in {"handle2FASession", "GetSessionInfo", "Verify2FA"}
                  /\ thr'[t] # thr[t]) =>
             Store' = Store /\ LStore' = LStore
      ]_vars

(* C11: the authenticated lifetime of a stored session is 24 h counted from
   its promotion: the step that turns a stored session from pending to
   authenticated sets expiresAt to that moment + 24 h, and no later step
   changes expiresAt of an authenticated session that stays stored. *)
C11_LifetimeFromPromotion ==
    [][ \A k \in sessions \cap sessions' :
          /\ (~objs[k].authenticated /\ objs'[k].authenticated) =>
                objs'[k].expiresAt = now' + AuthTTL
          /\ objs[k].authenticated => objs'[k].expiresAt = objs[k].expiresAt
      ]_vars

(* C12: every stored session has expiresAt > createdAt, and every stored
   session that is not authenticated has expiresAt = createdAt + 15 min, in
   the map of the TwoFASessionManager and in the map of the SessionManager. *)
C12_PendingExpiry ==
    /\ \A k \in sessions :
          /\ objs[k].expiresAt > objs[k].createdAt
          /\ ~objs[k].authenticated => objs[k].expiresAt = objs[k].createdAt + PendingTTL
    /\ \A k \in lsessions :
          /\ lobjs[k].expiresAt > lobjs[k].createdAt
          /\ ~lobjs[k].twoFAVerified =>
                lobjs[k].expiresAt = lobjs[k].createdAt + PendingTTL

(* the part of C12 that is the TwoFASessionManager *)
C12_TwoFASessionsOnly ==
    \A k \in sessions :
          /\ objs[k].expiresAt > objs[k].createdAt
          /\ ~objs[k].authenticated => objs[k].expiresAt = objs[k].createdAt + PendingTTL

(* C13: LogoutEndpoint with a session id, that is DeleteSession: the id is
   not a key afterwards, every other session stays as it was, deleting an
   id that is not a key changes nothing (so deleting twice is deleting
   once), and afterwards GetSession of the id finds nothing and
   MarkAuthenticated of the id fails and writes nothing. *)
C13_DeleteIdempotent ==
    [][ \A sid \in SessionIDs \cup {BasicAuthToken} :
          (thr' = thr /\ LogoutEndpoint(sid)) =>
             /\ sid \notin sessions'
             /\ \A j \in sessions \ {sid} : j \in sessions' /\ objs'[j] = objs[j]
             /\ sessions' \subseteq sessions
             /\ sid \notin sessions => Store' = Store
             /\ GetSession(sid)' = NoToken
             /\ ~MarkOk(sid)'
             /\ MarkAuthenticated(sid)' = objs'
      ]_vars

(* a session that a request has looked up and that has not expired was
   deleted while another session is still stored *)
C13_Witness ==
    \E t \in Threads :
        /\ thr[t].pc \in {"hs_read", "hv_mark", "ve_mark"}
        /\ thr[t].ptr \notin sessions
        /\ now <= objs[thr[t].ptr].expiresAt
        /\ sessions # {}

(* C14: a password request whose credential lookup failed because the store
   was unavailable is never answered with "Invalid credentials". *)
C14_StoreFailureDistinct ==
    \A t \in Threads :
        (thr[t].op = "handleBasicAuth" /\ thr[t].pc = "done" /\ thr[t].err) =>
            thr[t].out # "Invalid credentials"

(* C15: a password-only request that fails credential verification, whether
   for an unknown username or for a known username with a wrong password,
   gets one and the same reply ("Invalid credentials", no subject, nothing
   returned), and changes neither the credential store nor a session
   store. *)
C15_FailureCausesAlike ==
    [][ \A t \in Threads :
          (Free(t) /\ thr'[t].op = "handleBasicAuth" /\ thr'[t] # thr[t]) =>
             \A l \in Logins :
                ( /\ l[1] \notin Users \/ l[2] # PasswordOf(l[1])
                  /\ handleBasicAuth(t, l[1], l[2], NoCode) ) =>
                    /\ thr'[t] = [Idle EXCEPT !.op = "handleBasicAuth",
                                              !.pc = "done",
                                              !.out = "Invalid credentials"]
                    /\ db' = db
                    /\ Store' = Store
                    /\ LStore' = LStore
      ]_vars

(* a password request was refused while a session is stored *)
C15_Witness ==
    \E t \in Threads :
        /\ thr[t].op = "handleBasicAuth" /\ thr[t].pc = "done"
        /\ thr[t].out = "Invalid credentials" /\ ~thr[t].err
        /\ sessions # {}

(* C16: a call of EnableTwoFA with a code that is not the code of the
   supplied secret for a step within two steps of now fails with "invalid
   2FA code" and leaves every record as it was; with such a code it writes,
   in the one step, the supplied secret, enabled = true and a list of
   exactly 10 codes of which none was issued before, returns exactly the
   list it stored, and touches no other record. *)
C16_EnableAllOrNothing ==
    [][ \A t \in Threads :
          (Free(t) /\ thr'[t].op = "EnableTwoFA" /\ thr'[t] # thr[t]) =>
             \A u \in Users : \A s \in ClientSecrets(u) : \A c \in EnableCodes(s) :
                EnableTwoFA(t, u, s, c) =>
                   IF \E k \in (0 - 2)..2 : c = GenerateCode(s, now + k)
                   THEN /\ thr'[t].out = "enabled"
                        /\ db'[u].secret = s
                        /\ db'[u].enabled
                        /\ db'[u].backup.text = "array"
                        /\ db'[u].backup.items = thr'[t].ret
                        /\ Len(thr'[t].ret) = 10
                        /\ \A i \in 1..10 : thr'[t].ret[i] \notin IssuedCodes
                        /\ \A i, j \in 1..10 :
                              i # j => thr'[t].ret[i] # thr'[t].ret[j]
                        /\ db'[u] # db[u]
                        /\ \A v \in Users \ {u} : db'[v] = db[v]
                   ELSE /\ thr'[t].out = "invalid 2FA code"
                        /\ thr'[t].ret = <<>>
                        /\ db' = db
      ]_vars

(* 2FA was enabled a second time: the call returned the second list and the
   record holds it *)
C16_Witness ==
    \E t \in Threads :
        /\ thr[t].op = "EnableTwoFA" /\ thr[t].out = "enabled"
        /\ rng.batch = 2
        /\ db[thr[t].user].enabled
        /\ db[thr[t].user].backup.items = thr[t].ret

(* a call of EnableTwoFA was refused for a subject whose 2FA is enabled *)
C16_WitnessRefused ==
    \E t \in Threads :
        /\ thr[t].op = "EnableTwoFA" /\ thr[t].out = "invalid 2FA code"
        /\ db[thr[t].user].enabled

(* C17: DisableTwoFA leaves the subject's record with the empty secret,
   enabled = false and no backup codes, and GetUserTwoFAStatus is then
   false; while the status is false every VerifyTwoFA whose SELECT runs is
   rejected whatever the code, and writes nothing; and the status becomes
   true again only in a step in which EnableTwoFA succeeds. *)
C17_DisabledRejectsAll ==
    [][ /\ \A u \in Users :
             (thr' = thr /\ DisableTwoFA(u)) =>
                /\ db'[u].secret = EmptySecret
                /\ ~db'[u].enabled
                /\ db'[u].backup.text = "empty" /\ db'[u].backup.items = <<>>
                /\ ~GetUserTwoFAStatus(u)'
        /\ \A t \in Threads :
             (thr[t].pc = "vt_select" /\ VerifySelect(t)
                /\ ~GetUserTwoFAStatus(thr[t].user)) =>
                /\ thr'[t].pc = "done"
                /\ ~thr'[t].valid
                /\ thr'[t].out \notin {"valid", "forwarded"}
                /\ db' = db
        /\ \A u \in Users :
             (~GetUserTwoFAStatus(u) /\ GetUserTwoFAStatus(u)') =>
                \E t \in Threads :
                   /\ thr'[t] # thr[t]
                   /\ thr'[t].op = "EnableTwoFA" /\ thr'[t].out = "enabled"
                   /\ thr'[t].user = u
      ]_vars

(* after a disable, a backup code of the list issued before and the code of
   the old secret were both refused *)
C17_Witness ==
    /\ rng.batch = 1
    /\ ~db[1].enabled /\ db[1].secret = EmptySecret /\ db[1].backup.items = <<>>
    /\ thr[1].op = "VerifyTwoFACode" /\ thr[1].pc = "done"
    /\ thr[1].code = BackupCode(1, 1) /\ ~thr[1].valid
    /\ thr[2].op = "VerifyTwoFACode" /\ thr[2].pc = "done"
    /\ thr[2].code = GenerateCode(1, now) /\ ~thr[2].valid

(* C18: with calls made one at a time, GenerateTwoFASetup for a subject
   that has a stored secret returns that secret and changes nothing; it
   draws a secret only for a subject whose stored secret is empty, and then
   stores the secret it returns, one that was never drawn before, leaving
   the enabled flag, the backup codes and every other record as they were. *)
C18_SetupReusesSecret ==
    [][ \A t \in Threads :
          /\ (Free(t) /\ thr'[t].op = "GenerateTwoFASetup" /\ thr'[t] # thr[t]) =>
                \A u \in Users :
                   (GenerateTwoFASetup(t, u) /\ db[u].secret # EmptySecret) =>
                      /\ thr'[t].pc = "done"
                      /\ thr'[t].ret = <<db[u].secret>>
                      /\ db' = db
                      /\ rng' = rng
          /\ (thr[t].pc = "gs_update" /\ thr[t].user \in Users /\ SetupStore(t)) =>
                LET u == thr[t].user IN
                /\ db[u].secret = EmptySecret
                /\ thr'[t].pc = "done"
                /\ thr'[t].ret = <<db'[u].secret>>
                /\ db'[u].secret # EmptySecret
                /\ \A n \in 1..rng.secret : db'[u].secret # GeneratedSecret(n)
                /\ db'[u].enabled = db[u].enabled
                /\ db'[u].backup = db[u].backup
                /\ \A v \in Users \ {u} : db'[v] = db[v]
      ]_vars

(* 2FA is enabled with the secret of the first setup, and a setup called
   after that returned the same secret *)
C18_Witness ==
    \E t \in Threads :
        /\ thr[t].op = "GenerateTwoFASetup" /\ thr[t].pc = "done"
        /\ thr[t].user \in Users
        /\ db[thr[t].user].enabled
        /\ db[thr[t].user].secret = GeneratedSecret(1)
        /\ thr[t].ret = <<GeneratedSecret(1)>>

(* C19: a TOTP code of the secret in question made for a time step is
   accepted by VerifyTwoFA and by EnableTwoFA exactly when that step is at
   most 2 steps before or after the step of the server's clock at the
   moment of the validation; at a distance of 3 steps it is rejected. *)
C19_TotpWindow ==
    [][ \A t \in Threads :
          /\ ( /\ thr[t].pc = "vt_select" /\ thr[t].op = "VerifyTwoFACode"
               /\ VerifySelect(t)
               /\ db[thr[t].user].enabled
               /\ thr[t].code[1] = "totp"
               /\ thr[t].code[2] = db[thr[t].user].secret ) =>
                LET d == thr[t].code[3] - now IN
                /\ thr'[t].pc = "done"
                /\ thr'[t].valid <=> (0 - 2 <= d /\ d <= 2)
                /\ (thr'[t].out = "valid") <=> (0 - 2 <= d /\ d <= 2)
          /\ (Free(t) /\ thr'[t].op = "EnableTwoFA" /\ thr'[t] # thr[t]) =>
                \A k \in Offsets : \A s \in ClientSecrets(1) :
                   EnableTwoFA(t, 1, s, GenerateCode(s, now + k)) =>
                      /\ (thr'[t].out = "enabled") <=> (0 - 2 <= k /\ k <= 2)
                      /\ (thr'[t].out = "invalid 2FA code") <=> (k < 0 - 2 \/ k > 2)
      ]_vars

(* the clock has moved, and a code made for the step two steps back was
   accepted by VerifyTwoFA *)
C19_Witness ==
    \E t \in Threads :
        /\ now > 0
        /\ thr[t].op = "VerifyTwoFACode" /\ thr[t].pc = "done" /\ thr[t].valid
        /\ db[thr[t].user].enabled
        /\ thr[t].code = GenerateCode(db[thr[t].user].secret, now - 2)

(* a code made for the step three steps back was rejected by VerifyTwoFA *)
C19_WitnessRejected ==
    \E t \in Threads :
        /\ thr[t].op = "VerifyTwoFACode" /\ thr[t].pc = "done" /\ ~thr[t].valid
        /\ db[thr[t].user].enabled
        /\ thr[t].code = GenerateCode(db[thr[t].user].secret, now - 3)

(* what a request with the credentials l and nothing else comes to, up to
   the creation of the challenge session *)
PasswordOnlyOutcome(t, l) ==
    /\ Store' = Store
    /\ db' = db
    /\ IF l[1] \notin Users \/ l[2] # PasswordOf(l[1])
       THEN /\ thr'[t].pc = "done"
            /\ thr'[t].out = "Invalid credentials"
            /\ thr'[t].subject = NoUser
            /\ thr'[t].ret = <<>>
       ELSE IF ~db[l[1]].enabled
       THEN /\ thr'[t].pc = "done"
            /\ thr'[t].out = "forwarded"
            /\ thr'[t].subject = l[1]
            /\ thr'[t].ret = <<>>
       ELSE /\ thr'[t].pc \in {"ba_create", "bt_create"}
            /\ thr'[t].user = l[1]

(* C20: a SmartAuth request with the session header "basic-auth" and
   password credentials, with or without a code, and a SmartAuth request
   with the same credentials and nothing else meet one and the same
   description.  Wrong credentials: "Invalid credentials", no subject, no
   session id, session store unchanged.  Subject with 2FA off: forwarded
   with the subject, no session id, session store unchanged.  Subject with
   2FA on: a challenge that returns the id of exactly one new session, which
   is pending, belongs to the subject and expires 15 minutes later, every
   other session unchanged.  The sentinel is never a key of the session
   map. *)
C20_SentinelIsPasswordOnly ==
    [][ /\ BasicAuthToken \notin sessions'
        /\ \A t \in Threads :
             /\ ( /\ Free(t) /\ thr'[t] # thr[t]
                  /\ thr'[t].op = "handleBasicAuthTo2FATransition" ) =>
                   \A l \in Logins : \A c \in {NoCode} \cup OwnCodes(l[1]) :
                      SmartAuth(t, BasicAuthToken, c, l[1], l[2]) =>
                         PasswordOnlyOutcome(t, l)
             /\ ( /\ Free(t) /\ thr'[t] # thr[t]
                  /\ thr'[t].op = "handleBasicAuth" ) =>
                   \A l \in Logins :
                      SmartAuth(t, NoToken, NoCode, l[1], l[2]) =>
                         PasswordOnlyOutcome(t, l)
             /\ (thr[t].pc \in {"ba_create", "bt_create"} /\ ChallengeCreate(t)) =>
                   /\ thr'[t].pc = "done"
                   /\ thr'[t].out \in {"2FA code required", "2FA verification required"}
                   /\ thr'[t].subject = NoUser
                   /\ Len(thr'[t].ret) = 1
                   /\ LET k == thr'[t].ret[1] IN
                        /\ k \notin sessions
                        /\ k \notin {NoToken, BasicAuthToken}
                        /\ sessions' = sessions \cup {k}
                        /\ objs'[k].userID = thr[t].user
                        /\ ~objs'[k].authenticated
                        /\ objs'[k].expiresAt = now + 30
                        /\ \A j \in sessions : objs'[j] = objs[j]
      ]_vars

(* a request with the sentinel was answered with a challenge whose session
   is stored and pending, next to a session stored before *)
C20_Witness ==
    \E t \in Threads :
        /\ thr[t].op = "handleBasicAuthTo2FATransition" /\ thr[t].pc = "done"
        /\ thr[t].out = "2FA verification required"
        /\ Len(thr[t].ret) = 1
        /\ thr[t].ret[1] \in sessions
        /\ ~objs[thr[t].ret[1]].authenticated
        /\ Cardinality(sessions) = 2

(* a request with the sentinel and the credentials of a subject with 2FA off
   was forwarded *)
C20_WitnessForwarded ==
    \E t \in Threads :
        /\ thr[t].op = "handleBasicAuthTo2FATransition" /\ thr[t].pc = "done"
        /\ thr[t].out = "forwarded" /\ thr[t].subject = 3

(* C21 as stated: the initiation endpoint called with correct credentials
   for a subject whose 2FA is off answers "2FA setup required" and creates
   no session, and every session put into the map belongs to a subject
   whose 2FA is enabled at the moment the session is created. *)
C21_AsStated ==
    [][ /\ \A t \in Threads :
             (Free(t) /\ thr'[t].op = "Create2FAEndpoint" /\ thr'[t] # thr[t]) =>
                \A l \in Logins :
                   ( /\ Create2FAEndpoint(t, l[1], l[2])
                     /\ l[1] \in Users /\ l[2] = PasswordOf(l[1])
                     /\ ~db[l[1]].enabled ) =>
                      /\ thr'[t].pc = "done"
                      /\ thr'[t].out = "2FA setup required"
                      /\ Store' = Store
        /\ \A k \in sessions' \ sessions : db[objs'[k].userID].enabled
      ]_vars

(* C21: the initiation endpoint called with correct credentials for a
   subject whose 2FA is off answers "2FA setup required", a signal that is
   neither a challenge nor "Invalid credentials", returns no session id and
   changes no session; every session put into the map is created by a
   request for its own subject, and a request gets to the point of creating
   a session only in a step in which the row it read has 2FA enabled. *)
C21_SetupRequiredFirst ==
    [][ \A t \in Threads :
          /\ (Free(t) /\ thr'[t].op = "Create2FAEndpoint" /\ thr'[t] # thr[t]) =>
                \A l \in Logins :
                   ( /\ Create2FAEndpoint(t, l[1], l[2])
                     /\ l[1] \in Users /\ l[2] = PasswordOf(l[1])
                     /\ ~db[l[1]].enabled ) =>
                      /\ thr'[t].pc = "done"
                      /\ thr'[t].out = "2FA setup required"
                      /\ thr'[t].ret = <<SetupRequiredToken>>
                      /\ SetupRequiredToken \notin sessions'
                      /\ thr'[t].subject = NoUser
                      /\ Store' = Store
          /\ (Free(t) /\ thr'[t].pc \in {"ba_create", "bt_create", "ce_create"}) =>
                /\ thr'[t].user \in Users
                /\ db[thr'[t].user].enabled
                /\ db' = db
          /\ sessions' \ sessions # {} =>
                \E c \in Threads :
                   /\ thr[c].pc \in {"ba_create", "bt_create", "ce_create"}
                   /\ thr'[c].pc = "done"
                   /\ sessions' \ sessions = {thr'[c].ret[1]}
                   /\ objs'[thr'[c].ret[1]].userID = thr[c].user
      ]_vars

(* the initiation endpoint asked a subject without 2FA for the setup while
   a session of another subject is stored *)
C21_Witness ==
    \E t \in Threads :
        /\ thr[t].op = "Create2FAEndpoint" /\ thr[t].pc = "done"
        /\ thr[t].out = "2FA setup required"
        /\ sessions # {}

(* a pending session is stored for a subject whose 2FA is off *)
C21_WitnessDisabled ==
    \E k \in sessions : ~db[objs[k].userID].enabled

(* C22: in every state, a subject whose record has enabled = true has a
   secret that is not empty. *)
C22_EnabledHasSecret ==
    \A u \in DOMAIN db : db[u].enabled => db[u].secret # EmptySecret

(* C22, the writers other than user creation: no step of EnableTwoFA,
   DisableTwoFA or GenerateTwoFASetup leaves the subject they write with
   enabled = true and an empty secret. *)
C22_ByServiceWriters ==
    [][ \A u \in DOMAIN db :
          (db'[u] # db[u]) => (db'[u].enabled => db'[u].secret # EmptySecret)
      ]_vars

(* C23: when VerifyTwoFA returns true after matching a backup code, the
   stored list does not contain that code at the moment of the return. *)
C23_PersistedBeforeReturn ==
    [][ \A t \in Threads :
          (thr[t].pc = "vt_update" /\ thr'[t].pc = "done" /\ thr'[t].valid) =>
             thr[t].code \notin StoredCodes(db'[thr[t].user])
      ]_vars

(* C24: no request handler holds a reference to a session that is stored
   in the map. *)
C24_NoReferenceHandedOut ==
    \A t \in Threads : thr[t].ptr \notin sessions

(* C24: in no state is one request about to read the fields of a stored
   session through a reference, outside the lock, while another request is
   about to write the same session in MarkAuthenticated. *)
C24_NoReadOverlapsMark ==
    \A r \in Threads : \A w \in Threads \ {r} :
        ~ ( /\ thr[r].pc = "hs_read"
            /\ thr[r].ptr \in sessions
            /\ thr[w].pc \in {"hv_mark", "ve_mark"}
            /\ thr[w].tok = thr[r].ptr
            /\ MarkOk(thr[w].tok) )

(* C25, the TwoFASessionManager alone: no request is at a write of
   sm.sessions while another request is at a read or a write of it. *)
C25_TwoFASessionsOnly ==
    \A a \in Threads : \A b \in Threads \ {a} :
        ~ (thr[a].pc = "cs_locked" /\ thr[b].pc \in {"cs_locked", "gs_rlocked"})

(* C25: for each of the two session maps, no request is at a write of the
   map while another request is at a read or a write of the same map. *)
C25_MapAccessExclusive ==
    \A a \in Threads : \A b \in Threads \ {a} :
        /\ ~ (thr[a].pc = "cs_locked" /\ thr[b].pc \in {"cs_locked", "gs_rlocked"})
        /\ ~ (thr[a].pc = "lc_write" /\ thr[b].pc = "lc_write")

(* C26: a run of the sweep removes exactly the sessions with
   now > expiresAt, keeps the others as they were and ends with the lock
   released; and with the ticker firing again and again, every stored
   session whose expiry has passed is eventually not in the map, the sweep
   never keeps the lock, and a request waiting for the lock eventually gets
   its answer. *)
C26_SweepRemovesExpired ==
    /\ [][ \A t \in Threads :
              (thr[t].pc = "cl_locked" /\ thr'[t].pc # "cl_locked") =>
                 /\ \A k \in sessions :
                       (k \in sessions') <=> (now <= objs[k].expiresAt)
                 /\ sessions' \subseteq sessions
                 /\ \A k \in sessions' : objs'[k] = objs[k]
                 /\ Holding("cl_locked")' = {}
          ]_vars
    /\ \A k \in 1..MaxSessions :
          (k \in sessions /\ now > objs[k].expiresAt) ~> (k \notin sessions)
    /\ (Holding("cl_locked") # {}) ~> (Holding("cl_locked") = {})
    /\ \A t \in Caller : (thr[t].pc = "cs_wait") ~> (thr[t].pc = "done")

(* a sweep has run that removed one of two sessions and kept the other *)
C26_Witness ==
    \E t \in Sweepers :
        /\ thr[t].op = "cleanup" /\ thr[t].out = "swept"
        /\ rng.token = 2
        /\ Cardinality(sessions) = 1
        /\ \A k \in sessions : now <= objs[k].expiresAt

(* a request waits for the lock while the sweep holds it *)
C26_WitnessWaiting ==
    /\ \E t \in Caller : thr[t].pc = "cs_wait"
    /\ \E t \in Sweepers : thr[t].pc = "cl_locked"
    /\ \E k \in sessions : now > objs[k].expiresAt

(* C27: a session of the TwoFASessionManager gets authenticated = TRUE only
   in the MarkAuthenticated step of a request that looked this session up
   while it was stored and for which VerifyTwoFA, called with the subject
   stored in the session, returned true with no error; a session is created
   unauthenticated under a token never used before, and its subject never
   changes while the session object exists. *)
C27_AuthenticatedOnlyAfterVerify ==
    [][ (objs' # objs) =>
          \A k \in 1..MaxSessions :
             /\ (k \in DOMAIN objs' /\ k \notin DOMAIN objs) =>
                   /\ ~objs'[k].authenticated
                   /\ k > rng.token
             /\ (k \in DOMAIN objs' /\ k \in DOMAIN objs) =>
                   /\ objs'[k].userID = objs[k].userID
                   /\ (objs'[k].authenticated /\ ~objs[k].authenticated) =>
                         \E t \in Threads :
                            /\ thr[t].pc \in {"hv_mark", "ve_mark"}
                            /\ thr[t].tok = k /\ thr[t].ptr = k
                            /\ thr[t].valid /\ ~thr[t].err
                            /\ thr[t].user = objs[k].userID
                            /\ k \in sessions
      ]_vars

(* the verification endpoint has promoted a session of subject 2 *)
C27_Witness ==
    /\ \E t \in Threads :
          thr[t].op = "Verify2FAEndpoint" /\ thr[t].out = "2FA verification successful"
    /\ \E k \in sessions : objs[k].authenticated /\ objs[k].userID = 2

(* C28: a token-plus-code request that does not end authenticated leaves
   the backup codes of every subject as they were: the step that ends it
   changes no row, and if it ends after VerifyTwoFA accepted its code, the
   code was not a backup code taken from the list. *)
C28_ConsumedOnlyIfAuthenticated ==
    [][ \A t \in Threads :
          ( /\ thr'[t].op = "handle2FAVerification"
            /\ thr'[t].pc = "done" /\ thr'[t] # thr[t]
            /\ thr'[t].out # "forwarded" ) =>
              /\ db' = db
              /\ thr[t].pc = "hv_mark" =>
                    ~( /\ IsBackup(thr[t].code)
                       /\ thr[t].code \notin StoredCodes(db[thr[t].user]) )
      ]_vars

(* C29: whenever no call of the TwoFAService is in flight, a subject whose
   row has two_fa_enabled = FALSE has no backup code stored; in particular
   this is so once a DisableTwoFA and a VerifyTwoFA that matched a backup
   code of the same subject have both completed. *)
C29_DisabledHasNoCodes ==
    Quiet => \A u \in DOMAIN db : ~db[u].enabled => db[u].backup.items = <<>>

(* C30: with GenerateTwoFASetup calls as the only writers of the rows,
   every call that has returned has returned the secret the store holds for
   its subject, so that calls for one subject all return the same secret,
   the one left in the store. *)
C30_ReturnedSecretIsStored ==
    \A t \in Threads :
        (thr[t].op = "GenerateTwoFASetup" /\ thr[t].pc = "done") =>
            thr[t].ret = <<db[thr[t].user].secret>>

====
